---- MODULE Spec2Model ----
(***************************************************************************)
(* The proof orchestrator of provekit (Prove for Prover, prover/src/lib.rs) *)
(* as a state machine: one action per step of prove, the Prover's five     *)
(* Option fields, the Fiat-Shamir transcript (merlin) and the layered      *)
(* witness solve.  Three further specifications run the utilities of       *)
(* common/src/utils/zk_utils.rs: SpecHash (hash_public_values), SpecPoly   *)
(* (generate_random_multilinear_polynomial and its chunk workers) and      *)
(* SpecMask (create_masked_polynomial).                                    *)
(***************************************************************************)
EXTENDS Integers, Sequences, FiniteSets, TLC

\* ------------------------------------------------------------ bounds
NumConstraints == 1
NumWitnesses == 2
NumAcir == 2
MaxProofs == 2
MaxHashLen == 3
MaxHashVal == 2
\* usize is 64 bits wide on the targets of the program; the model keeps the
\* arithmetic of 1 << num_vars and scales the width
UsizeBits == 8
\* threads of the rayon pool
NumWorkers == 2
\* create_masked_polynomial is applied to polynomials of up to MaxMaskVars
\* variables
MaxMaskVars == 1

Slots == 0 .. (NumWitnesses - 1)
AcirIdx == 0 .. (NumAcir - 1)
NoValue == -1
EmptyWitnessMap == [i \in AcirIdx |-> NoValue]

VARIABLES
  program, r1cs, split_witness_builders, witness_generator, whir_for_witness,
  scheme, pc, result, acir_witness_idx_to_value_map, witness_io,
  witness_merlin, partial_witness, acir_to_r1cs_public_map, witness,
  steps, absorbErrs, fills, backendWitness, proofs, failedPhases, lastProof,
  missedPublic, solverRun,
  hashIn, hashOut,
  build, num_vars, num_elements, elements, workers, polyPc,
  maskIn, maskOut

proverFields == <<program, r1cs, split_witness_builders, witness_generator, whir_for_witness>>
callLocals == <<acir_witness_idx_to_value_map, witness_io, witness_merlin, partial_witness,
                acir_to_r1cs_public_map, witness>>
ghosts == <<steps, absorbErrs, fills, backendWitness, proofs, failedPhases, lastProof,
            missedPublic, solverRun>>
polyVars == <<build, num_vars, num_elements, elements, workers, polyPc>>
maskVars == <<maskIn, maskOut>>
hashVars == <<hashIn, hashOut, polyVars, maskVars>>
vars == <<proverFields, scheme, pc, result, callLocals, ghosts, hashVars>>

\* ------------------------------------------------------------ helpers
RECURSIVE SortedSeq(_)
SortedSeq(S) ==
  IF S = {} THEN <<>>
  ELSE LET m == CHOOSE x \in S : \A y \in S : x <= y
       IN <<m>> \o SortedSeq(S \ {m})

RECURSIVE Flatten(_)
Flatten(ss) == IF ss = <<>> THEN <<>> ELSE Head(ss) \o Flatten(Tail(ss))

\* ------------------------------------------------------------ witness builders
\* WitnessBuilder: one builder per witness slot idx.  arg is the constant, the
\* native (ACIR) index copied from, the challenge tag, or the slot a Computed
\* expression reads.
Builder(kind, idx, arg) == [kind |-> kind, idx |-> idx, arg |-> arg]

\* what may sit at slot s: nothing, or one builder
Unassigned == [kind |-> "None", idx |-> 0, arg |-> 0]

BuilderChoices(s) ==
  {Unassigned, Builder("Constant", s, 1), Builder("Challenge", s, 0)}
    \cup {Builder("NativeWitness", s, a) : a \in AcirIdx}
    \cup {Builder("Computed", s, d) : d \in Slots}

\* A plan lists its builders in slot order: slots below split are solved in
\* w1_layers, the others in w2_layers, and a new layer starts at every slot s
\* with cut[s].
LayerId(cut, s) == Cardinality({t \in 1 .. s : cut[t]})

LayersOf(bs, cut, G) ==
  LET used == {s \in G : bs[s].kind # "None"}
      ids == SortedSeq({LayerId(cut, s) : s \in used})
  IN [k \in 1 .. Len(ids) |->
        LET order == SortedSeq({s \in used : LayerId(cut, s) = ids[k]})
        IN [j \in 1 .. Len(order) |-> bs[order[j]]]]

PlanOf(bs, cut, split) ==
  [w1_layers |-> LayersOf(bs, cut, {s \in Slots : s < split}),
   w2_layers |-> LayersOf(bs, cut, {s \in Slots : s >= split})]

BuilderAssignments == {bs \in [Slots -> UNION {BuilderChoices(s) : s \in Slots}] :
                          \A s \in Slots : bs[s] \in BuilderChoices(s)}

SplitWitnessBuilders ==
  {PlanOf(bs, cut, split) :
     bs \in BuilderAssignments,
     cut \in [1 .. (NumWitnesses - 1) -> BOOLEAN],
     split \in 0 .. NumWitnesses}

\* the circuit's public inputs: public_inputs().indices() is ascending
PublicIdxChoices == {SortedSeq(S) : S \in SUBSET AcirIdx}

\* the native witness map: value i + 1 at index i, with at most one index absent
NativeMaps ==
  {[i \in AcirIdx |-> IF i = gone THEN NoValue ELSE i + 1] : gone \in AcirIdx \cup {NumAcir}}

\* ------------------------------------------------------------ transcript
\* IOPattern::new("📜").add_shape().add_public_inputs(n).add_logup_challenges(k):
\* the declared operations, in order; a zero count declares nothing.
PatternOps(io) ==
  <<[op |-> "A", n |-> 2]>>
    \o (IF io.pubs > 0 THEN <<[op |-> "A", n |-> io.pubs]>> ELSE <<>>)
    \o (IF io.chals > 0 THEN <<[op |-> "S", n |-> io.chals]>> ELSE <<>>)

\* witness_io.to_prover_state(): nothing absorbed or squeezed yet
ToProverState(io) == [stack |-> PatternOps(io), log |-> <<>>, poisoned |-> FALSE]

\* what remains declared after n units of the head operation are used
Consume(stack, n) ==
  IF Head(stack).n = n THEN Tail(stack)
  ELSE <<[Head(stack) EXCEPT !.n = @ - n]>> \o Tail(stack)

Matches(m, op, n) ==
  /\ ~m.poisoned
  /\ m.stack # <<>>
  /\ Head(m.stack).op = op
  /\ Head(m.stack).n >= n

Poison(m) == [m EXCEPT !.stack = <<>>, !.poisoned = TRUE]

\* merlin.add_scalars(vals): Ok and the values absorbed, or Err and the
\* transcript left unusable.  envOk is the capability's own outcome.
AddScalars(m, vals, envOk) ==
  IF envOk /\ Matches(m, "A", Len(vals))
  THEN [ok |-> TRUE,
        m |-> [m EXCEPT !.stack = Consume(m.stack, Len(vals)),
                        !.log = Append(@, [op |-> "absorb", vals |-> vals])]]
  ELSE [ok |-> FALSE, m |-> Poison(m)]

AbsorbedScalars(log) ==
  Flatten([k \in 1 .. Len(log) |-> IF log[k].op = "absorb" THEN log[k].vals ELSE <<>>])

NumSqueezed(log) == Cardinality({k \in 1 .. Len(log) : log[k].op = "squeeze"})

SpongeBase == NumConstraints + NumWitnesses + NumAcir + 3

RECURSIVE Encode(_)
Encode(s) == IF s = <<>> THEN 1 ELSE Encode(SubSeq(s, 1, Len(s) - 1)) * SpongeBase + s[Len(s)]

\* the challenge a squeeze yields: a function of everything absorbed so far
\* and of the number of challenges already drawn, and of nothing else
ChallengeValue(log) == Encode(AbsorbedScalars(log)) * (NumWitnesses + 1) + NumSqueezed(log)

\* one challenge scalar drawn from the transcript
SqueezeChallenge(m) ==
  IF Matches(m, "S", 1)
  THEN [ok |-> TRUE, val |-> ChallengeValue(m.log),
        m |-> [m EXCEPT !.stack = Consume(m.stack, 1),
                        !.log = Append(@, [op |-> "squeeze", vals |-> <<ChallengeValue(m.log)>>])]]
  ELSE [ok |-> FALSE, val |-> NoValue, m |-> Poison(m)]

\* ------------------------------------------------------------ layered witness solver
EmptyWitness == [s \in Slots |-> NoValue]
NoFills == [s \in Slots |-> 0]

SolverState(nativeMap, m) ==
  [status |-> "ok", err |-> "", partial |-> EmptyWitness, fills |-> NoFills,
   m |-> m, native |-> nativeMap]

Fill(st, idx, v) == [st EXCEPT !.partial[idx] = v, !.fills[idx] = @ + 1]

SolverFail(st, e) == [st EXCEPT !.status = "panic", !.err = e]

\* one builder, against the slots filled before its layer began (base)
SolveBuilder(st, b, base) ==
  IF st.status # "ok" THEN st
  ELSE CASE b.kind = "Constant" -> Fill(st, b.idx, b.arg)
         [] b.kind = "NativeWitness" ->
              IF st.native[b.arg] = NoValue
              THEN SolverFail(st, "MissingNativeWitness")
              ELSE Fill(st, b.idx, st.native[b.arg])
         [] b.kind = "Challenge" ->
              LET r == SqueezeChallenge(st.m)
              IN IF r.ok THEN Fill([st EXCEPT !.m = r.m], b.idx, r.val)
                 ELSE SolverFail([st EXCEPT !.m = r.m], "TranscriptError")
         [] OTHER ->
              IF base[b.arg] = NoValue
              THEN SolverFail(st, "UnresolvedWitnessDependency")
              ELSE Fill(st, b.idx, base[b.arg] + 1)

RECURSIVE SolveLayer(_, _, _)
SolveLayer(st, layer, base) ==
  IF layer = <<>> THEN st
  ELSE SolveLayer(SolveBuilder(st, Head(layer), base), Tail(layer), base)

RECURSIVE SolveLayers(_, _)
SolveLayers(st, layers) ==
  IF layers = <<>> \/ st.status # "ok" THEN st
  ELSE SolveLayers(SolveLayer(st, Head(layers), st.partial), Tail(layers))

\* public ACIR index -> R1CS slot, for the public indices a NativeWitness
\* builder copies; kept in key order
PublicMap(layers, pubIdxs) ==
  LET bs == Flatten(layers)
      slotsOf(p) == {bs[k].idx : k \in {j \in 1 .. Len(bs) :
                                         bs[j].kind = "NativeWitness" /\ bs[j].arg = p}}
      keys == SelectSeq(pubIdxs, LAMBDA p : slotsOf(p) # {})
  IN [k \in 1 .. Len(keys) |->
        [acir |-> keys[k], r1cs |-> CHOOSE s \in slotsOf(keys[k]) : \A t \in slotsOf(keys[k]) : t <= s]]

\* r1cs.solve_witness_vec(plan, native map, public indices, transcript)
SolveWitnessVec(layers, nativeMap, pubIdxs, m) ==
  [st |-> SolveLayers(SolverState(nativeMap, m), layers),
   pubmap |-> PublicMap(layers, pubIdxs)]

\* fill_witness: the dense witness, or the missing-witness error
FillWitnessOk(partial) == \A s \in Slots : partial[s] # NoValue

\* ------------------------------------------------------------ hash_public_values
NumLimbs == 4
LimbBytes == 8

\* value.into_bigint().0: the little-endian u64 limbs.  Every value of the
\* model is below 2^31, so the low limb is the value and the others are 0.
Limbs(v) == [k \in 1 .. NumLimbs |-> IF k = 1 THEN v ELSE 0]

\* limb.to_le_bytes()
RECURSIVE LeBytes(_, _)
LeBytes(l, n) == IF n = 0 THEN <<>> ELSE <<l % 256>> \o LeBytes(l \div 256, n - 1)

ValueBytes(v) == Flatten([k \in 1 .. NumLimbs |-> LeBytes(Limbs(v)[k], LimbBytes)])

Min(a, b) == IF a <= b THEN a ELSE b

\* the values the loop visits: public_indices.iter().zip(witness.iter())
ZippedValues(public_indices, w) ==
  [k \in 1 .. Min(Len(public_indices), Len(w)) |-> w[k]]

\* everything hasher.update is fed, in order.  The digest and the limb
\* reconstruction that follow are functions of these bytes alone.
HashPublicValues(public_indices, w) ==
  LET vals == ZippedValues(public_indices, w)
  IN Flatten([k \in 1 .. Len(vals) |-> ValueBytes(vals[k])])

\* ------------------------------------------------------------ generate_random_multilinear_polynomial
\* line 24: const CHUNK_SIZE: usize = 32
CHUNK_SIZE == 32
Pow2(k) == 2 ^ k
UsizeMax == Pow2(UsizeBits) - 1
IsizeMax == Pow2(UsizeBits - 1) - 1
Builds == {"overflow_checks", "wrapping"}

\* line 20: 1 << num_vars on usize.  A shift by the word width or more is an
\* arithmetic overflow: a build with overflow checks panics, a build without
\* them shifts by num_vars modulo the width.
ShiftLeftOne(k, b) ==
  IF k < UsizeBits THEN [ok |-> TRUE, value |-> Pow2(k) % Pow2(UsizeBits)]
  ELSE IF b = "overflow_checks" THEN [ok |-> FALSE, value |-> 0]
  ELSE [ok |-> TRUE, value |-> Pow2(k % UsizeBits)]

\* line 21: Vec::with_capacity(n) panics with a capacity overflow when the
\* request exceeds isize::MAX bytes (an element takes at least one byte)
CapacityFits(n) == n <= IsizeMax

NoElements == [cap |-> 0, len |-> 0, writes |-> <<>>, at_set_len |-> {}]

\* a buffer of capacity n and length 0: no slot is initialised.  writes[i+1]
\* lists the workers that wrote slot i, in order.
WithCapacity(n) ==
  [cap |-> n, len |-> 0, writes |-> [i \in 1 .. n |-> <<>>], at_set_len |-> {}]

\* line 27: spare_capacity_mut() is the slots from len to cap
SpareCapacity(v) == v.len .. (v.cap - 1)

\* line 30: par_chunks_mut(CHUNK_SIZE) cuts the spare slots into consecutive
\* chunks of CHUNK_SIZE slots, the last one possibly shorter
NumChunks(v) == (Cardinality(SpareCapacity(v)) + CHUNK_SIZE - 1) \div CHUNK_SIZE
ChunkStart(v, c) == v.len + c * CHUNK_SIZE
ChunkEnd(v, c) == Min(ChunkStart(v, c) + CHUNK_SIZE, v.cap)

NoChunk == -1
IdleWorker == [chunk |-> NoChunk, next |-> 0]
Workers == 1 .. NumWorkers
Initialised(v) == {i \in 0 .. (v.cap - 1) : v.writes[i + 1] # <<>>}

PolyOff ==
  /\ build = "overflow_checks" /\ num_vars = 0 /\ num_elements = 0
  /\ elements = NoElements /\ workers = [w \in Workers |-> IdleWorker]
  /\ polyPc = "off"

\* ------------------------------------------------------------ create_masked_polynomial
NoMaskIn == [original |-> <<>>, mask |-> <<>>]
NoMaskOut == [stage |-> "off", evals |-> <<>>]
MaskOff == maskIn = NoMaskIn /\ maskOut = NoMaskOut

IsPowerOfTwo(n) == \E k \in 0 .. n : Pow2(k) = n

\* CreateMaskedPolynomial with a fault: the mask extended first
CreateMaskedPolynomialMaskFirst(original, mask) ==
  LET combined == <<>>
      withMask == combined \o mask
  IN withMask \o original

\* lines 13-15: combined starts empty, is extended by original.evals() and
\* then by mask
CreateMaskedPolynomial(original, mask) ==
  LET combined == <<>>
      withOriginal == combined \o original
  IN withOriginal \o mask


\* ------------------------------------------------------------ prove
NoResult == [kind |-> "None", err |-> "", phase |-> ""]
NoPattern == [pubs |-> 0, chals |-> 0]
NoMerlin == [stack |-> <<>>, log |-> <<>>, poisoned |-> FALSE]
NoBackend == [invoked |-> FALSE, witness |-> EmptyWitness, fills |-> NoFills]
NoSolverRun == [ran |-> FALSE, declared |-> 0, challenges |-> 0, squeezed |-> 0]
NoProof == [returned |-> FALSE, public_inputs |-> <<>>, absorbed |-> <<>>]
NoHashIn == [public_indices |-> <<>>, witness |-> <<>>]
NoHashOut == [stage |-> "off", out |-> <<>>, prev |-> <<>>, changed |-> 0]

DropLocals ==
  /\ acir_witness_idx_to_value_map' = EmptyWitnessMap
  /\ witness_io' = NoPattern
  /\ witness_merlin' = NoMerlin
  /\ partial_witness' = EmptyWitness
  /\ acir_to_r1cs_public_map' = <<>>
  /\ witness' = EmptyWitness

\* prove returns (Ok or Err) or unwinds (Panic); its locals are dropped
Return(kind, err, phase) ==
  /\ pc' = "idle"
  /\ result' = [kind |-> kind, err |-> err, phase |-> phase]
  /\ failedPhases' = IF kind = "Ok" THEN failedPhases ELSE failedPhases \cup {phase}
  /\ proofs' = IF kind = "Ok" THEN proofs + 1 ELSE proofs
  /\ DropLocals

\* Pipeline with a fault: the layered solve placed before the transcript seeding
PipelineSolveBeforeSeed ==
  <<"read_inputs", "encode", "execute", "io_pattern", "solve", "seed_shape",
    "seed_pubs", "fill", "check", "backend">>

\* the statements of prove, in program order (generate_witness and
\* seed_witness_merlin inlined where prove calls them)
Pipeline ==
  <<"read_inputs", "encode", "execute", "io_pattern", "seed_shape", "seed_pubs",
    "solve", "fill", "check", "backend">>

Successor(at) ==
  LET k == CHOOSE i \in 1 .. Len(Pipeline) : Pipeline[i] = at
  IN Pipeline[k + 1]

\* the step succeeded: control falls through to the next statement
Continue ==
  /\ pc' = Successor(pc)
  /\ UNCHANGED <<result, failedPhases, proofs>>

\* Take with a fault: the field is only borrowed (as_ref), and stays Some
TakeLeavesSome(field) == field

\* Option::take(): the field is left None
Take(field) == FALSE
Step(name) == steps' = Append(steps, name)

\* number of Challenge builders create_witness_io_pattern counts
CountChallenges(layers) ==
  LET bs == Flatten(layers)
  IN Cardinality({k \in 1 .. Len(bs) : bs[k].kind = "Challenge"})

\* create_witness_io_pattern
CreateWitnessIoPattern(sch) ==
  [pubs |-> Len(sch.pub), chals |-> CountChallenges(sch.split.w2_layers)]

\* AllLayers with a fault: the two groups concatenated the other way round
AllLayersW2First(split) == split.w2_layers \o split.w1_layers

\* all_layers = w1_layers.layers, extended by w2_layers.layers
AllLayers(split) == split.w1_layers \o split.w2_layers

Init ==
  /\ program = TRUE /\ r1cs = TRUE /\ split_witness_builders = TRUE
  /\ witness_generator = TRUE /\ whir_for_witness = TRUE
  /\ scheme \in [pub : PublicIdxChoices, split : SplitWitnessBuilders]
  /\ pc = "idle" /\ result = NoResult
  /\ acir_witness_idx_to_value_map = EmptyWitnessMap
  /\ witness_io = NoPattern /\ witness_merlin = NoMerlin
  /\ partial_witness = EmptyWitness /\ acir_to_r1cs_public_map = <<>>
  /\ witness = EmptyWitness
  /\ steps = <<>> /\ absorbErrs = 0 /\ fills = NoFills /\ backendWitness = NoBackend
  /\ proofs = 0 /\ failedPhases = {} /\ lastProof = NoProof
  /\ missedPublic = FALSE /\ solverRun = NoSolverRun
  /\ hashIn = NoHashIn /\ hashOut = NoHashOut
  /\ PolyOff /\ MaskOff

\* a caller invokes prove on the instance
Call ==
  /\ pc = "idle" /\ proofs < MaxProofs
  /\ pc' = Pipeline[1]
  /\ result' = NoResult
  /\ steps' = <<>> /\ absorbErrs' = 0 /\ fills' = NoFills /\ backendWitness' = NoBackend
  /\ missedPublic' = FALSE /\ solverRun' = NoSolverRun
  /\ UNCHANGED <<proverFields, scheme, callLocals, proofs, failedPhases, lastProof, hashVars>>

\* ReadInputs with a fault: the witness generator is taken (take()) where the
\* code borrows it (as_ref())
ReadInputsTaking ==
  /\ pc = "read_inputs"
  /\ IF ~witness_generator
     THEN Return("Panic", "unwrap on None: witness_generator", "read_inputs")
          /\ UNCHANGED <<steps, witness_generator>>
     ELSE /\ witness_generator' = Take(witness_generator)
          /\ Step("read_inputs")
          /\ \E ok \in BOOLEAN :
               IF ok THEN Continue /\ UNCHANGED callLocals
               ELSE Return("Err", "InputDecodeError", "read_inputs")
  /\ UNCHANGED <<program, r1cs, split_witness_builders, whir_for_witness, scheme,
                 absorbErrs, fills, backendWitness, lastProof, missedPublic, solverRun, hashVars>>

\* lines 79-82: read_inputs_from_file(path, witness_generator.as_ref().unwrap().abi())?
ReadInputs ==
  /\ pc = "read_inputs"
  /\ IF ~witness_generator
     THEN Return("Panic", "unwrap on None: witness_generator", "read_inputs") /\ UNCHANGED steps
     ELSE /\ Step("read_inputs")
          /\ \E ok \in BOOLEAN :
               IF ok THEN Continue /\ UNCHANGED callLocals
               ELSE Return("Err", "InputDecodeError", "read_inputs")
  /\ UNCHANGED <<proverFields, scheme, absorbErrs, fills, backendWitness, lastProof, missedPublic, solverRun, hashVars>>

\* generate_witness, lines 57-62: witness_generator.take().unwrap().abi().encode(..)?
EncodeInputs ==
  /\ pc = "encode"
  /\ IF ~witness_generator
     THEN Return("Panic", "unwrap on None: witness_generator", "native_execution")
          /\ UNCHANGED <<steps, witness_generator>>
     ELSE /\ witness_generator' = Take(witness_generator)
          /\ Step("generate_witness")
          /\ \E ok \in BOOLEAN :
               IF ok THEN Continue /\ UNCHANGED callLocals
               ELSE Return("Err", "InputEncodeError", "native_execution")
  /\ UNCHANGED <<program, r1cs, split_witness_builders, whir_for_witness, scheme,
                 absorbErrs, fills, backendWitness, lastProof, missedPublic, solverRun, hashVars>>

\* PubVals with a fault: the public values collected in reverse order
PubValsReversed(pubIdxs, nativeMap) ==
  [k \in 1 .. Len(pubIdxs) |-> nativeMap[pubIdxs[Len(pubIdxs) + 1 - k]]]

\* the public values in canonical order: noir_to_native(witness.get_index(i))
PubVals(pubIdxs, nativeMap) == [k \in 1 .. Len(pubIdxs) |-> nativeMap[pubIdxs[k]]]

MissingPublic(pubIdxs, nativeMap) ==
  \E k \in 1 .. Len(pubIdxs) : nativeMap[pubIdxs[k]] = NoValue

\* generate_witness, lines 64-74: execute_program(program.as_ref().unwrap(), ..)?,
\* then witness_stack.pop().context("Missing witness results")?
ExecuteProgram ==
  /\ pc = "execute"
  /\ IF ~program
     THEN Return("Panic", "unwrap on None: program", "native_execution")
          /\ UNCHANGED missedPublic
     ELSE \/ Return("Err", "NativeExecutionError", "native_execution")
             /\ UNCHANGED missedPublic
          \/ Return("Err", "Missing witness results", "native_execution")
             /\ UNCHANGED missedPublic
          \/ \E m \in NativeMaps :
               /\ acir_witness_idx_to_value_map' = m
               /\ missedPublic' = MissingPublic(scheme.pub, m)
               /\ Continue
               /\ UNCHANGED <<witness_io, witness_merlin, partial_witness,
                              acir_to_r1cs_public_map, witness>>
  /\ UNCHANGED <<proverFields, scheme, steps, absorbErrs, fills, backendWitness,
                 lastProof, solverRun, hashVars>>

\* lines 85-91: the public indices, the IO pattern and the prover state
BuildTranscript ==
  /\ pc = "io_pattern"
  /\ IF ~program \/ ~split_witness_builders
     THEN Return("Panic", "unwrap on None", "transcript_seeding")
     ELSE /\ witness_io' = CreateWitnessIoPattern(scheme)
          /\ witness_merlin' = ToProverState(CreateWitnessIoPattern(scheme))
          /\ Continue
          /\ UNCHANGED <<acir_witness_idx_to_value_map, partial_witness,
                         acir_to_r1cs_public_map, witness>>
  /\ UNCHANGED <<proverFields, scheme, steps, absorbErrs, fills, backendWitness,
                 lastProof, missedPublic, solverRun, hashVars>>

\* seed_witness_merlin, lines 170-173: let _ = merlin.add_scalars(&[nc, nw])
SeedShape ==
  /\ pc = "seed_shape"
  /\ IF ~r1cs
     THEN Return("Panic", "unwrap on None: r1cs", "transcript_seeding")
          /\ UNCHANGED <<steps, absorbErrs>>
     ELSE \E envOk \in BOOLEAN :
            LET r == AddScalars(witness_merlin, <<NumConstraints, NumWitnesses>>, envOk)
            IN /\ witness_merlin' = r.m
               /\ absorbErrs' = IF r.ok THEN absorbErrs ELSE absorbErrs + 1
               /\ Step("seed_witness_merlin")
               /\ Continue
               /\ UNCHANGED <<acir_witness_idx_to_value_map, witness_io, partial_witness,
                              acir_to_r1cs_public_map, witness>>
  /\ UNCHANGED <<proverFields, scheme, fills, backendWitness, lastProof, missedPublic, solverRun, hashVars>>

\* seed_witness_merlin, lines 176-186: program.take().unwrap(), then the public
\* values (expect("missing public input")) and let _ = merlin.add_scalars(&pub_vals)
SeedPublicInputs ==
  /\ pc = "seed_pubs"
  /\ IF ~program
     THEN Return("Panic", "unwrap on None: program", "transcript_seeding")
          /\ UNCHANGED <<program, absorbErrs>>
     ELSE /\ program' = Take(program)
          /\ IF scheme.pub = <<>>
             THEN /\ Continue
                  /\ UNCHANGED <<callLocals, absorbErrs>>
             ELSE IF MissingPublic(scheme.pub, acir_witness_idx_to_value_map)
             THEN Return("Panic", "missing public input", "transcript_seeding")
                  /\ UNCHANGED absorbErrs
             ELSE \E envOk \in BOOLEAN :
                    LET r == AddScalars(witness_merlin,
                                        PubVals(scheme.pub, acir_witness_idx_to_value_map), envOk)
                    IN /\ witness_merlin' = r.m
                       /\ absorbErrs' = IF r.ok THEN absorbErrs ELSE absorbErrs + 1
                       /\ Continue
                       /\ UNCHANGED <<acir_witness_idx_to_value_map, witness_io,
                                      partial_witness, acir_to_r1cs_public_map, witness>>
  /\ UNCHANGED <<r1cs, split_witness_builders, witness_generator, whir_for_witness, scheme,
                 steps, fills, backendWitness, lastProof, missedPublic, solverRun, hashVars>>
\* lines 94-105: split_witness_builders.take().unwrap(), the concatenated plan,
\* r1cs.as_ref().unwrap().solve_witness_vec(..)
SolveWitness ==
  /\ pc = "solve"
  /\ IF ~split_witness_builders
     THEN Return("Panic", "unwrap on None: split_witness_builders", "witness_solving")
          /\ UNCHANGED <<split_witness_builders, steps, fills, solverRun>>
     ELSE /\ split_witness_builders' = Take(split_witness_builders)
          /\ IF ~r1cs
             THEN Return("Panic", "unwrap on None: r1cs", "witness_solving")
                  /\ UNCHANGED <<steps, fills, solverRun>>
             ELSE LET res == SolveWitnessVec(AllLayers(scheme.split),
                                             acir_witness_idx_to_value_map,
                                             scheme.pub, witness_merlin)
                  IN /\ Step("solve_witness_vec")
                     /\ fills' = res.st.fills
                     /\ solverRun' = [ran |-> TRUE,
                                      declared |-> witness_io.chals,
                                      challenges |-> CountChallenges(AllLayers(scheme.split)),
                                      squeezed |-> NumSqueezed(res.st.m.log)]
                     /\ IF res.st.status = "ok"
                        THEN /\ partial_witness' = res.st.partial
                             /\ acir_to_r1cs_public_map' = res.pubmap
                             /\ witness_merlin' = res.st.m
                             /\ Continue
                             /\ UNCHANGED <<acir_witness_idx_to_value_map, witness_io, witness>>
                        ELSE Return("Panic", res.st.err, "witness_solving")
  /\ UNCHANGED <<program, r1cs, witness_generator, whir_for_witness, scheme,
                 absorbErrs, backendWitness, lastProof, missedPublic, hashVars>>

\* FillWitness with a fault: the result of fill_witness is not checked
FillWitnessUnchecked ==
  /\ pc = "fill"
  /\ Step("fill_witness")
  /\ witness' = partial_witness
  /\ Continue
  /\ UNCHANGED <<acir_witness_idx_to_value_map, witness_io, witness_merlin,
                 partial_witness, acir_to_r1cs_public_map>>
  /\ UNCHANGED <<proverFields, scheme, absorbErrs, fills, backendWitness,
                 lastProof, missedPublic, solverRun, hashVars>>

\* lines 107-111: fill_witness(partial_witness).context("while filling witness")?
FillWitness ==
  /\ pc = "fill"
  /\ Step("fill_witness")
  /\ IF FillWitnessOk(partial_witness)
     THEN /\ witness' = partial_witness
          /\ Continue
          /\ UNCHANGED <<acir_witness_idx_to_value_map, witness_io, witness_merlin,
                         partial_witness, acir_to_r1cs_public_map>>
     ELSE Return("Err", "MissingWitness", "witness_filling")
  /\ UNCHANGED <<proverFields, scheme, absorbErrs, fills, backendWitness,
                 lastProof, missedPublic, solverRun, hashVars>>

\* CheckSatisfaction with a fault: the check takes r1cs (take()) where the code
\* borrows it (as_ref())
CheckSatisfactionTaking ==
  /\ pc = "check"
  /\ \/ /\ Continue
        /\ UNCHANGED <<callLocals, steps, r1cs>>
     \/ IF ~r1cs
        THEN Return("Panic", "unwrap on None: r1cs", "satisfaction_check")
             /\ UNCHANGED <<steps, r1cs>>
        ELSE /\ r1cs' = Take(r1cs)
             /\ Step("test_witness_satisfaction")
             /\ \/ Continue /\ UNCHANGED callLocals
                \/ Return("Err", "UnsatisfiedConstraint", "satisfaction_check")
  /\ UNCHANGED <<program, split_witness_builders, witness_generator, whir_for_witness,
                 scheme, absorbErrs, fills, backendWitness,
                 lastProof, missedPublic, solverRun, hashVars>>

\* lines 113-119: under cfg(test) only, test_witness_satisfaction(&witness)?.
\* Whether the build has the check, and what the R1CS says, are inputs.
CheckSatisfaction ==
  /\ pc = "check"
  /\ \/ /\ Continue
        /\ UNCHANGED <<callLocals, steps>>
     \/ IF ~r1cs
        THEN Return("Panic", "unwrap on None: r1cs", "satisfaction_check")
             /\ UNCHANGED steps
        ELSE /\ Step("test_witness_satisfaction")
             /\ \/ Continue /\ UNCHANGED callLocals
                \/ Return("Err", "UnsatisfiedConstraint", "satisfaction_check")
  /\ UNCHANGED <<proverFields, scheme, absorbErrs, fills, backendWitness,
                 lastProof, missedPublic, solverRun, hashVars>>

\* lines 121-127: witness[i] for the values of acir_to_r1cs_public_map
GatherPublicInputs(w, pubmap) == [k \in 1 .. Len(pubmap) |-> w[pubmap[k].r1cs]]

\* lines 129-141: whir_for_witness.take().unwrap().prove(r1cs.take().unwrap(), ..)
ProveR1CS ==
  /\ pc = "backend"
  /\ IF ~whir_for_witness
     THEN Return("Panic", "unwrap on None: whir_for_witness", "backend_proving")
          /\ UNCHANGED <<whir_for_witness, r1cs, steps, backendWitness, lastProof>>
     ELSE /\ whir_for_witness' = Take(whir_for_witness)
          /\ IF ~r1cs
             THEN Return("Panic", "unwrap on None: r1cs", "backend_proving")
                  /\ UNCHANGED <<r1cs, steps, backendWitness, lastProof>>
             ELSE /\ r1cs' = Take(r1cs)
                  /\ Step("whir_prove")
                  /\ backendWitness' = [invoked |-> TRUE, witness |-> witness, fills |-> fills]
                  /\ \/ /\ Return("Ok", "", "")
                        /\ lastProof' =
                             [returned |-> TRUE,
                              public_inputs |->
                                GatherPublicInputs(witness, acir_to_r1cs_public_map),
                              absorbed |-> AbsorbedScalars(witness_merlin.log)]
                     \/ /\ Return("Err", "ProvingBackendError", "backend_proving")
                        /\ UNCHANGED lastProof
  /\ UNCHANGED <<program, split_witness_builders, witness_generator, scheme,
                 absorbErrs, fills, missedPublic, solverRun, hashVars>>

Next ==
  \/ Call
  \/ ReadInputs
  \/ EncodeInputs
  \/ ExecuteProgram
  \/ BuildTranscript
  \/ SeedShape
  \/ SeedPublicInputs
  \/ SolveWitness
  \/ FillWitness
  \/ CheckSatisfaction
  \/ ProveR1CS

Spec == Init /\ [][Next]_vars

\* ------------------------------------------------------------ SpecHash
\* public indices are distinct and ascending
HashIndexSeqs == {SortedSeq(S) : S \in SUBSET (0 .. (MaxHashLen - 1))}
HashWitnesses == UNION {[1 .. n -> 1 .. MaxHashVal] : n \in 0 .. MaxHashLen}

InitHash ==
  /\ program = TRUE /\ r1cs = TRUE /\ split_witness_builders = TRUE
  /\ witness_generator = TRUE /\ whir_for_witness = TRUE
  /\ scheme = [pub |-> <<>>, split |-> [w1_layers |-> <<>>, w2_layers |-> <<>>]]
  /\ pc = "hash" /\ result = NoResult
  /\ acir_witness_idx_to_value_map = EmptyWitnessMap
  /\ witness_io = NoPattern /\ witness_merlin = NoMerlin
  /\ partial_witness = EmptyWitness /\ acir_to_r1cs_public_map = <<>>
  /\ witness = EmptyWitness
  /\ steps = <<>> /\ absorbErrs = 0 /\ fills = NoFills /\ backendWitness = NoBackend
  /\ proofs = 0 /\ failedPhases = {} /\ lastProof = NoProof
  /\ missedPublic = FALSE /\ solverRun = NoSolverRun
  /\ hashIn \in [public_indices : HashIndexSeqs, witness : HashWitnesses]
  /\ hashOut = [NoHashOut EXCEPT !.stage = "ready"]
  /\ PolyOff /\ MaskOff

\* hash_public_values(public_indices, witness)
HashCall ==
  /\ hashOut.stage = "ready"
  /\ hashOut' = [hashOut EXCEPT !.stage = "hashed",
                                !.out = HashPublicValues(hashIn.public_indices, hashIn.witness)]
  /\ UNCHANGED <<proverFields, scheme, pc, result, callLocals, ghosts, hashIn,
                 polyVars, maskVars>>

\* the same call again, with one witness value changed
HashChanged ==
  /\ hashOut.stage = "hashed"
  /\ \E j \in 1 .. Len(hashIn.witness), v \in 1 .. MaxHashVal :
       /\ v # hashIn.witness[j]
       /\ hashIn' = [hashIn EXCEPT !.witness[j] = v]
       /\ hashOut' = [stage |-> "rehashed", prev |-> hashOut.out, changed |-> j,
                      out |-> HashPublicValues(hashIn.public_indices,
                                               [hashIn.witness EXCEPT ![j] = v])]
  /\ UNCHANGED <<proverFields, scheme, pc, result, callLocals, ghosts, polyVars, maskVars>>

NextHash == HashCall \/ HashChanged

SpecHash == InitHash /\ [][NextHash]_vars

\* ------------------------------------------------------------ SpecPoly
\* a Prover that is not proving, while a utility runs under the label at
ProverAside(at) ==
  /\ program = TRUE /\ r1cs = TRUE /\ split_witness_builders = TRUE
  /\ witness_generator = TRUE /\ whir_for_witness = TRUE
  /\ scheme = [pub |-> <<>>, split |-> [w1_layers |-> <<>>, w2_layers |-> <<>>]]
  /\ pc = at /\ result = NoResult
  /\ acir_witness_idx_to_value_map = EmptyWitnessMap
  /\ witness_io = NoPattern /\ witness_merlin = NoMerlin
  /\ partial_witness = EmptyWitness /\ acir_to_r1cs_public_map = <<>>
  /\ witness = EmptyWitness
  /\ steps = <<>> /\ absorbErrs = 0 /\ fills = NoFills /\ backendWitness = NoBackend
  /\ proofs = 0 /\ failedPhases = {} /\ lastProof = NoProof
  /\ missedPublic = FALSE /\ solverRun = NoSolverRun

proverVars == <<proverFields, scheme, pc, result, callLocals, ghosts>>

\* num_vars is a usize: any value of the word, on either kind of build
InitPoly ==
  /\ ProverAside("poly")
  /\ hashIn = NoHashIn /\ hashOut = NoHashOut /\ MaskOff
  /\ build \in Builds
  /\ num_vars \in 0 .. UsizeMax
  /\ num_elements = 0 /\ elements = NoElements
  /\ workers = [w \in Workers |-> IdleWorker]
  /\ polyPc = "shift"

\* line 20: let num_elements = 1 << num_vars
PolyShift ==
  /\ polyPc = "shift"
  /\ LET r == ShiftLeftOne(num_vars, build)
     IN IF r.ok
        THEN num_elements' = r.value /\ polyPc' = "alloc"
        ELSE num_elements' = num_elements /\ polyPc' = "panicked"
  /\ UNCHANGED <<proverVars, hashIn, hashOut, maskVars, build, num_vars, elements, workers>>

\* lines 21-27: Vec::with_capacity(num_elements), then its spare capacity.
\* The allocation can fail for want of memory, and must when the request
\* does not fit.
PolyAlloc ==
  /\ polyPc = "alloc"
  /\ \/ /\ CapacityFits(num_elements)
        /\ elements' = WithCapacity(num_elements)
        /\ polyPc' = "fill"
     \/ /\ elements' = elements
        /\ polyPc' = "panicked"
  /\ UNCHANGED <<proverVars, hashIn, hashOut, maskVars, build, num_vars, num_elements, workers>>

Claimed(c) == \E w \in Workers : workers[w].chunk = c
ChunkDone(c) == \A i \in ChunkStart(elements, c) .. (ChunkEnd(elements, c) - 1) :
                  elements.writes[i + 1] # <<>>

\* lines 30-31: a worker of the pool takes a chunk nobody has taken; the
\* closure starts at the chunk's first slot with a thread_rng of its own
ClaimChunk(w) ==
  /\ polyPc = "fill"
  /\ workers[w].chunk = NoChunk
  /\ \E c \in 0 .. (NumChunks(elements) - 1) :
       /\ ~Claimed(c) /\ ~ChunkDone(c)
       /\ workers' = [workers EXCEPT ![w] = [chunk |-> c, next |-> ChunkStart(elements, c)]]
  /\ UNCHANGED <<proverVars, hashIn, hashOut, maskVars, build, num_vars, num_elements, elements, polyPc>>

\* lines 32-34: element.write(FieldElement::rand(&mut rng)) for the next slot
\* of the worker's chunk
WriteElement(w) ==
  /\ polyPc = "fill"
  /\ workers[w].chunk # NoChunk
  /\ workers[w].next < ChunkEnd(elements, workers[w].chunk)
  /\ elements' = [elements EXCEPT !.writes[workers[w].next + 1] = Append(@, w)]
  /\ workers' = [workers EXCEPT ![w].next = @ + 1]
  /\ UNCHANGED <<proverVars, hashIn, hashOut, maskVars, build, num_vars, num_elements, polyPc>>

\* line 35: the closure returns at the end of its chunk
FinishChunk(w) ==
  /\ polyPc = "fill"
  /\ workers[w].chunk # NoChunk
  /\ workers[w].next = ChunkEnd(elements, workers[w].chunk)
  /\ workers' = [workers EXCEPT ![w] = IdleWorker]
  /\ UNCHANGED <<proverVars, hashIn, hashOut, maskVars, build, num_vars, num_elements, elements, polyPc>>

\* line 35: for_each returns to the caller once every chunk's closure has
\* returned
JoinWorkers ==
  /\ polyPc = "fill"
  /\ \A c \in 0 .. (NumChunks(elements) - 1) : ChunkDone(c) /\ ~Claimed(c)
  /\ polyPc' = "set_len"
  /\ UNCHANGED <<proverVars, hashIn, hashOut, maskVars, build, num_vars, num_elements, elements, workers>>

\* lines 37-39: unsafe { elements.set_len(num_elements) }
SetLen ==
  /\ polyPc = "set_len"
  /\ elements' = [elements EXCEPT !.len = num_elements, !.at_set_len = Initialised(elements)]
  /\ polyPc' = "return"
  /\ UNCHANGED <<proverVars, hashIn, hashOut, maskVars, build, num_vars, num_elements, workers>>

\* line 41: elements is handed to the caller
ReturnElements ==
  /\ polyPc = "return"
  /\ polyPc' = "returned"
  /\ UNCHANGED <<proverVars, hashIn, hashOut, maskVars, build, num_vars, num_elements, elements, workers>>

ClaimAny == \E w \in Workers : ClaimChunk(w)
WriteAny == \E w \in Workers : WriteElement(w)
FinishAny == \E w \in Workers : FinishChunk(w)

NextPoly ==
  \/ PolyShift
  \/ PolyAlloc
  \/ ClaimAny
  \/ WriteAny
  \/ FinishAny
  \/ JoinWorkers
  \/ SetLen
  \/ ReturnElements

SpecPoly == InitPoly /\ [][NextPoly]_vars

\* ------------------------------------------------------------ SpecMask
MaskValues == 0 .. MaxHashVal
\* an EvaluationsList holds 2^n evaluations; the mask is any slice
MaskOriginals == UNION {[1 .. Pow2(n) -> MaskValues] : n \in 0 .. MaxMaskVars}
MaskSlices == UNION {[1 .. n -> MaskValues] : n \in 0 .. Pow2(MaxMaskVars)}

InitMask ==
  /\ ProverAside("mask")
  /\ hashIn = NoHashIn /\ hashOut = NoHashOut /\ PolyOff
  /\ maskIn \in [original : MaskOriginals, mask : MaskSlices]
  /\ maskOut = [NoMaskOut EXCEPT !.stage = "ready"]

\* create_masked_polynomial(original, mask).  EvaluationsList::new is not
\* part of these sources: whether it accepts a vector whose length is not a
\* power of two is left open.
MaskCall ==
  /\ maskOut.stage = "ready"
  /\ LET combined == CreateMaskedPolynomial(maskIn.original, maskIn.mask)
     IN \/ maskOut' = [stage |-> "built", evals |-> combined]
        \/ /\ ~IsPowerOfTwo(Len(combined))
           /\ maskOut' = [stage |-> "panicked", evals |-> <<>>]
  /\ UNCHANGED <<proverVars, hashIn, hashOut, polyVars, maskIn>>

NextMask == MaskCall

SpecMask == InitMask /\ [][NextMask]_vars

\* ------------------------------------------------------------ claims
IsPrefix(a, b) == Len(a) <= Len(b) /\ SubSeq(b, 1, Len(a)) = a

\* what seeding is to absorb, in order: the shape pair, then the public values
\* at the circuit's public indices (ascending), when there are any
SeedAbsorbs ==
  <<[op |-> "absorb", vals |-> <<NumConstraints, NumWitnesses>>]>>
    \o (IF scheme.pub = <<>> THEN <<>>
        ELSE <<[op |-> "absorb",
                vals |-> [k \in 1 .. Len(scheme.pub) |->
                            acir_witness_idx_to_value_map[scheme.pub[k]]]]>>)

\* C1: whatever the transcript has absorbed or squeezed during prove starts
\* with the pair [num_constraints, num_witnesses], goes on with the public
\* values in canonical order exactly when the circuit has public inputs, and
\* holds a squeezed challenge only after both; when seeding has run without a
\* transcript error the solver starts from exactly these absorptions.
C1_SeedBeforeSqueeze ==
  LET log == witness_merlin.log
  IN /\ \/ IsPrefix(log, SeedAbsorbs)
        \/ /\ IsPrefix(SeedAbsorbs, log)
           /\ \A k \in (Len(SeedAbsorbs) + 1) .. Len(log) : log[k].op = "squeeze"
     /\ (pc = "solve" /\ absorbErrs = 0) => log = SeedAbsorbs

\* C1 witness: two public values were absorbed after the shape and a challenge
\* was squeezed after them
C1_Witness ==
  /\ Len(scheme.pub) = 2
  /\ Len(witness_merlin.log) = 3
  /\ witness_merlin.log[2].op = "absorb"
  /\ witness_merlin.log[3].op = "squeeze"

\* C2: a native witness map without a value at a declared public index makes
\* prove return the error MissingPublicInput (an Err result, not a panic), and
\* no public value is absorbed in that call.
C2_MissingPublicInputIsErr ==
  missedPublic =>
    /\ Len(witness_merlin.log) <= 1
    /\ (pc = "idle" => result.kind = "Err" /\ result.err = "MissingPublicInput")

\* C3: once a proof has been returned, a later prove call does nothing but
\* fail on the consumed witness_generator: no step of the pipeline runs, no
\* transcript exists, the backend is not invoked and no second proof appears.
C3_SecondProveFailsFast ==
  proofs >= 1 =>
    /\ proofs = 1
    /\ pc \in {"idle", Pipeline[1]}
    /\ result.kind # "Ok" =>
         /\ steps = <<>>
         /\ witness_merlin = NoMerlin
         /\ ~backendWitness.invoked
         /\ result.kind = "Panic" =>
              result.err = "unwrap on None: witness_generator"

\* C3 witness: a call made after the proof has failed on the missing field
C3_Witness ==
  /\ proofs = 1 /\ pc = "idle" /\ result.kind = "Panic"
  /\ result.err = "unwrap on None: witness_generator"

C5_AbsorbErrorIsReturned ==
  absorbErrs > 0 => pc = "idle" /\ result.kind = "Err"

Range(q) == {q[k] : k \in 1 .. Len(q)}

\* the bytes of witness[i] for each i of indices, in order
ReferencedBytes(indices, w) ==
  Flatten([k \in 1 .. Len(indices) |-> ValueBytes(w[indices[k] + 1])])

\* C6: hash_public_values hashes witness[i] for each i of public_indices in
\* order; so, with the indices unchanged, changing the value at one position
\* changes what is hashed exactly when some index references that position.
C6_HashesReferencedValues ==
  (/\ hashOut.stage \in {"hashed", "rehashed"}
   /\ \A i \in Range(hashIn.public_indices) : i < Len(hashIn.witness))
  => /\ hashOut.out = ReferencedBytes(hashIn.public_indices, hashIn.witness)
     /\ hashOut.stage = "rehashed" =>
          ((hashOut.changed - 1) \in Range(hashIn.public_indices)
             <=> hashOut.out # hashOut.prev)

\* C7: whenever the solver is run, the number of challenge slots the IO pattern
\* declared equals the number of Challenge builders in w1_layers ++ w2_layers.
C7_DeclaredMatchesPlan ==
  solverRun.ran => solverRun.declared = solverRun.challenges

StepOrder ==
  <<"read_inputs", "generate_witness", "seed_witness_merlin", "solve_witness_vec",
    "fill_witness", "test_witness_satisfaction", "whir_prove">>

StepOrderNoCheck == SelectSeq(StepOrder, LAMBDA x : x # "test_witness_satisfaction")

\* C8: the steps a prove call has taken are always an initial part of: input
\* reading, native witness generation, transcript seeding, layered solve,
\* witness filling, the optional satisfaction check, backend proving; and the
\* backend is invoked only with the transcript seeded and a full witness.
C8_StepsInOrder ==
  /\ IsPrefix(steps, StepOrder) \/ IsPrefix(steps, StepOrderNoCheck)
  /\ backendWitness.invoked =>
       /\ {"seed_witness_merlin", "solve_witness_vec", "fill_witness"} \subseteq Range(steps)
       /\ \A sl \in Slots : backendWitness.witness[sl] # NoValue

\* C8 witness: a proof was returned after every step, the check included
C8_Witness == result.kind = "Ok" /\ steps = StepOrder

BadPlan(split) ==
  LET L == split.w1_layers \o split.w2_layers
  IN \E i \in 1 .. Len(L) : \E j \in i .. Len(L) : \E k \in 1 .. Len(L[i]) :
       /\ L[i][k].kind = "Computed"
       /\ \E m \in 1 .. Len(L[j]) : L[j][m].idx = L[i][k].arg

WrittenOnceBeforeSetLen(n) ==
  /\ \A i \in 0 .. (n - 1) :
       /\ i < elements.cap
       /\ Len(elements.writes[i + 1]) = 1
       /\ i \in elements.at_set_len
  /\ elements.len = n

\* C11: in generate_random_multilinear_polynomial, under every interleaving of
\* the chunk workers, no slot is ever written twice, and once the length is
\* set and the buffer returned each of the 2^num_vars output slots has been
\* written exactly once by exactly one worker, before set_len ran.
C11_SlotsWrittenOnceBeforeRead ==
  /\ \A i \in DOMAIN elements.writes : Len(elements.writes[i]) <= 1
  /\ polyPc \in {"return", "returned"} => WrittenOnceBeforeSetLen(Pow2(num_vars))

\* the same for the num_elements slots the function allocated, which are the
\* 2^num_vars slots whenever 1 << num_vars does not overflow
AllocatedSlotsWrittenOnce ==
  /\ \A i \in DOMAIN elements.writes : Len(elements.writes[i]) <= 1
  /\ polyPc \in {"return", "returned"} => WrittenOnceBeforeSetLen(num_elements)
  /\ polyPc = "fill" => elements.len = 0

\* C13: generate_random_multilinear_polynomial(k) returns a vector of length
\* exactly 2^k, for every k of the word, those at or above the word's bit
\* width included.
C13_LengthIsTwoToTheK ==
  polyPc = "returned" => elements.len = Pow2(num_vars)

\* a run that returns two chunks' worth of elements written by two workers
PolyTwoWorkersReturned ==
  /\ polyPc = "returned" /\ elements.len = 2 * CHUNK_SIZE
  /\ \E i, j \in DOMAIN elements.writes : elements.writes[i] # elements.writes[j]
\* C12: for an original p and a mask m of equal length,
\* create_masked_polynomial(p, m) has exactly 2 * p.len() evaluations, the
\* first half equal to p and the second half equal to m, element for element.
C12_MaskedIsOriginalThenMask ==
  LET p == maskIn.original
      m == maskIn.mask
      n == Len(p)
  IN (maskOut.stage = "built" /\ Len(m) = n) =>
       /\ Len(maskOut.evals) = 2 * n
       /\ \A i \in 1 .. n : maskOut.evals[i] = p[i] /\ maskOut.evals[n + i] = m[i]

\* a masked polynomial built from two evaluations and a mask that differs
\* from them
C12_Witness ==
  /\ maskOut.stage = "built"
  /\ Len(maskIn.original) = 2 /\ Len(maskIn.mask) = 2
  /\ maskIn.original # maskIn.mask
  /\ maskIn.original[1] # maskIn.original[2]
\* the transcript operations of a run, from the circuit shape, the public
\* values and the number of challenges of the plan alone: the seed
\* absorptions, then one squeeze per challenge, each value fixed by what was
\* absorbed and by its rank
ExpectedTranscript(shape, pubVals, numChallenges) ==
  LET seed == <<[op |-> "absorb", vals |-> shape]>>
                \o (IF pubVals = <<>> THEN <<>> ELSE <<[op |-> "absorb", vals |-> pubVals]>>)
      challenge(j) == Encode(shape \o pubVals) * (NumWitnesses + 1) + (j - 1)
  IN seed \o [j \in 1 .. numChallenges |-> [op |-> "squeeze", vals |-> <<challenge(j)>>]]

DeclaredPublicValues ==
  [k \in 1 .. Len(scheme.pub) |-> acir_witness_idx_to_value_map[scheme.pub[k]]]

PlanChallenges == CountChallenges(scheme.split.w1_layers \o scheme.split.w2_layers)

Swapped(pair) == <<pair[2], pair[1]>>

\* C14: the absorb and squeeze operations of a prove run, and the challenges
\* squeezed, are fixed by the circuit shape, the public values and the plan:
\* at every point the run has performed a prefix of that one sequence, and all
\* of it once the solve has completed without a transcript error, so two runs
\* that agree on shape, public values and plan agree on every operation and
\* challenge.  With two different public values, the absorbed sequence and
\* every challenge differ from those of the run with the two values swapped.
C14_TranscriptDetermined ==
  LET log == witness_merlin.log
      shape == <<NumConstraints, NumWitnesses>>
      pv == DeclaredPublicValues
      expected == ExpectedTranscript(shape, pv, PlanChallenges)
      other == ExpectedTranscript(shape, Swapped(pv), PlanChallenges)
  IN /\ IsPrefix(log, expected)
     /\ (pc \in {"fill", "check", "backend"} /\ absorbErrs = 0) => log = expected
     /\ (Len(pv) = 2 /\ pv[1] # pv[2] /\ Len(log) >= 2) =>
          /\ AbsorbedScalars(log) # AbsorbedScalars(SubSeq(other, 1, Len(log)))
          /\ \A k \in 3 .. Len(log) : log[k].vals # other[k].vals

\* a run with two different public values that has absorbed both and squeezed
\* a challenge, its solve completed
C14_Witness ==
  /\ pc = "backend" /\ absorbErrs = 0
  /\ Len(scheme.pub) = 2
  /\ DeclaredPublicValues[1] # DeclaredPublicValues[2]
  /\ NumSqueezed(witness_merlin.log) >= 1
AllFieldsNone ==
  ~program /\ ~r1cs /\ ~split_witness_builders /\ ~witness_generator /\ ~whir_for_witness

\* no step turns a None field into Some: a field goes from Some to None at
\* most once
FieldsOnlyConsumed ==
  /\ ~program => ~program'
  /\ ~r1cs => ~r1cs'
  /\ ~split_witness_builders => ~split_witness_builders'
  /\ ~witness_generator => ~witness_generator'
  /\ ~whir_for_witness => ~whir_for_witness'

\* C15: the fields of Prover are consumed monotonically: a field that has
\* become None never becomes Some again, so each is taken at most once, and
\* after a prove call that returned a proof all five fields are None.
C15_FieldsConsumedMonotonically ==
  /\ [][FieldsOnlyConsumed]_vars
  /\ [](result.kind = "Ok" => AllFieldsNone)

\* a prove call has returned a proof and left the Prover empty
C15_Witness == pc = "idle" /\ result.kind = "Ok" /\ proofs = 1 /\ AllFieldsNone
\* the public values a run absorbed: what follows the shape pair
AbsorbedPublicValues(absorbed) ==
  IF Len(absorbed) <= 2 THEN <<>> ELSE SubSeq(absorbed, 3, Len(absorbed))

\* C16: the PublicInputs of a returned proof are exactly the values of the
\* circuit's declared public inputs: one per declared index, in the order and
\* with the values seed_witness_merlin absorbed from the native witness map.
C16_PublicInputsAreAbsorbedValues ==
  lastProof.returned =>
    /\ Len(lastProof.public_inputs) = Len(scheme.pub)
    /\ lastProof.public_inputs = AbsorbedPublicValues(lastProof.absorbed)
\* the first prove call on the Prover is under way
FirstCall == pc # "idle" /\ proofs = 0 /\ failedPhases = {}

\* the Prover fields the statement at pc reads
FieldsReadAt(at) ==
  CASE at \in {"read_inputs", "encode"} -> <<witness_generator>>
    [] at \in {"execute", "seed_pubs"} -> <<program>>
    [] at = "io_pattern" -> <<program, split_witness_builders>>
    [] at \in {"seed_shape", "check"} -> <<r1cs>>
    [] at = "solve" -> <<split_witness_builders, r1cs>>
    [] at = "backend" -> <<whir_for_witness, r1cs>>
    [] OTHER -> <<>>

MissingFieldErrors ==
  {"unwrap on None", "unwrap on None: program", "unwrap on None: r1cs",
   "unwrap on None: split_witness_builders", "unwrap on None: witness_generator",
   "unwrap on None: whir_for_witness"}

\* C17: during the first prove call on a Prover built by
\* from_noir_proof_scheme, every field a statement reads is still Some when
\* the statement runs, and no step of the call ends it on a missing field.
C17_FirstCallReadsSomeFields ==
  /\ [](FirstCall => \A k \in 1 .. Len(FieldsReadAt(pc)) : FieldsReadAt(pc)[k])
  /\ [][FirstCall => result'.err \notin MissingFieldErrors]_vars

\* the first call has reached the backend step: the three fields used up are
\* None, the two it still reads are Some
C17_Witness ==
  /\ FirstCall /\ pc = "backend"
  /\ whir_for_witness /\ r1cs
  /\ ~program /\ ~witness_generator /\ ~split_witness_builders
\* the satisfaction check ran in this call
CheckRan == \E k \in 1 .. Len(steps) : steps[k] = "test_witness_satisfaction"

\* C18: when the satisfaction check runs and the witness does not satisfy the
\* R1CS, prove returns an error of its own (not the backend's, not a panic),
\* the backend has not been invoked and r1cs and whir_for_witness are still
\* Some; a call that ends at the check ends with that error.
C18_UnsatisfiedFailsBeforeBackend ==
  /\ [](result.err = "UnsatisfiedConstraint" =>
          /\ result.kind = "Err"
          /\ result.phase = "satisfaction_check" /\ result.phase # "backend_proving"
          /\ CheckRan
          /\ ~backendWitness.invoked
          /\ \A k \in 1 .. Len(steps) : steps[k] # "whir_prove"
          /\ r1cs /\ whir_for_witness)
  /\ [][(pc = "check" /\ pc' = "idle" /\ r1cs) =>
          (result'.kind = "Err" /\ result'.err = "UnsatisfiedConstraint")]_vars

\* a call has failed the satisfaction check of a solved witness
C18_Witness ==
  /\ pc = "idle" /\ result.err = "UnsatisfiedConstraint"
  /\ CheckRan /\ r1cs /\ whir_for_witness
  /\ ~split_witness_builders
====
